---- MODULE Spec2Model ----
(***************************************************************************)
(* State-machine model of baseplate.go's directorywatcher package and of   *)
(* the secrets Store built on the filewatcher.                             *)
(*                                                                         *)
(*   directorywatcher.go : New, directoryWatcher.Stop, watcherLoop         *)
(*   store.go            : NewStore, store.parser, store.secretHandler,    *)
(*                         store.AddMiddlewares, store.Close, getSecrets   *)
(*   config.go           : Config.getProvider, InitFromConfig              *)
(***************************************************************************)
EXTENDS Naturals, Sequences, FiniteSets

(***************************************************************************)
(* Bounds of the model.                                                    *)
(***************************************************************************)
\* changes of the watched directory and errors the raw event source reports
\* over one run (a rename is one change, reported as two events)
MaxEvents == 2
\* writes made to the file the Store watches
MaxWrites == 2
\* middlewares registered with one Store
MaxChain == 2
\* AddMiddlewares calls made on one Store
MaxAdds == 1

(***************************************************************************)
(* fsnotify.Op is a bit mask; an Op value is modelled as the set of its    *)
(* flags, so that the equality the switch of watcherLoop tests is equality *)
(* of sets.                                                                *)
(***************************************************************************)
Create == {"CREATE"}
Write == {"WRITE"}
Remove == {"REMOVE"}
Rename == {"RENAME"}
Chmod == {"CHMOD"}

\* the Op values the raw event source delivers in the model: the five single
\* flags and three combined masks
Ops ==
    {Create, Write, Remove, Rename, Chmod,
     Create \cup Write, Write \cup Chmod, Remove \cup Rename}

\* the paths of the files of the watched directory
Names == {"f1", "f2"}

\* the events the raw event source reports in the model: every single flag
\* on every file, and the combined masks on one file
RawInputs ==
    {in \in [Op : Ops, Name : Names] :
        Cardinality(in.Op) = 1 \/ in.Name = "f1"}

None == "none"

VARIABLES
    cfg,        \* directorywatcher.Config: which handlers are non-nil
    newResult,  \* what New returned: a handle or not, and the error
    fsOpen,     \* the fsnotify.Watcher New created is open
    closeCount, \* number of watcher.Close() calls made
    done,       \* w.ctx.Done() is closed
    events,     \* events of the raw source not yet received by the loop
    errors,     \* errors of the raw source not yet received by the loop
    loop,       \* position of the watcherLoop goroutine
    calls,      \* every handler call begun, in order, with its outcome
    logged,     \* number of messages given to the logger
    reported,   \* every event the raw source has reported, in order
    errTotal,   \* number of errors the raw source has reported
    stopCalls,  \* number of Stop() calls made: 0, 1, or 2 for two or more
    moved,      \* names of files renamed away and not created or written since
    renames,    \* the renames made inside the directory: from, to and the
                \* position of the Rename event among the reported events
    movedTo     \* the new name of a rename whose Create event is still to come

VARIABLES
    file,       \* content of the file the Store watches
    fileWrites, \* number of writes made to that file
    stNew,      \* position of the NewStore call
    stResult,   \* what NewStore returned: a Store or not, and the error
    watcherSet, \* store.watcher has been assigned (store.go line 95)
    snapshot,   \* the value the filewatcher holds: what Get() returns
    chain,      \* store.secretHandlerFunc: the middlewares wrapped so far,
                \* in the order of wrapping
    invCount,   \* number of invocations of the handler chain made
    lastInv,    \* the latest invocation of the handler chain
    fw,         \* position of the filewatcher's background goroutine
    fwEvents,   \* change events of the file not yet received by it
    fwStopped,  \* the filewatcher has been stopped
    fwVal,      \* the value the parser has returned and that is not stored yet
    fwLogged,   \* number of parse errors the filewatcher has logged
    newMws,     \* the middlewares given to NewStore
    addPc,      \* position of the AddMiddlewares call
    addLeft,    \* middlewares that call has still to wrap
    adds,       \* number of AddMiddlewares calls begun
    closes,     \* number of Close() calls made: 0, 1, or 2 for two or more
    registered, \* every middleware given to NewStore and to AddMiddlewares
                \* so far, in the order given
    config,     \* secrets.Config: the provider string of the configuration
    resolved    \* what Config.getProvider returned, once it has been called

stVars ==
    <<file, fileWrites, stNew, stResult, watcherSet, snapshot, chain,
      invCount, lastInv, fw, fwEvents, fwStopped, fwVal, fwLogged, newMws,
      addPc, addLeft, adds, closes, registered, config, resolved>>

cfVars == <<config, resolved>>

dwVars ==
    <<cfg, newResult, fsOpen, closeCount, done, events, errors, loop,
      calls, logged, reported, errTotal, stopCalls, moved, renames, movedTo>>

vars == <<dwVars, stVars>>

(***************************************************************************)
(* directorywatcher.go                                                     *)
(***************************************************************************)

\* the process has not died of a panic
Alive == loop # "crashed"

\* mutant: the default case is missing, a permission change calls onCreate
ClassifyNoDefault(op) ==
    IF op = Create \/ op = Write \/ op = Chmod THEN "onCreate"
    ELSE IF op = Remove \/ op = Rename THEN "onRemove"
    ELSE "ignore"

\* mutant: Rename is listed in the case of Create and Write
ClassifyRenameAsCreate(op) ==
    IF op = Create \/ op = Write \/ op = Rename THEN "onCreate"
    ELSE IF op = Remove THEN "onRemove"
    ELSE "ignore"

\* the case of `switch ev.Op` the event takes (lines 66-77)
Classify(op) ==
    IF op = Create \/ op = Write THEN "onCreate"
    ELSE IF op = Remove \/ op = Rename THEN "onRemove"
    ELSE "ignore"

\* the handler of the configuration a case calls is non-nil
HandlerSet(h) ==
    IF h = "onCreate" THEN cfg.OnCreate ELSE cfg.OnRemove

\* mutant: the newest event is received first
ReceiveNewest(q) == [ev |-> q[Len(q)], rest |-> SubSeq(q, 1, Len(q) - 1)]

\* the receive `ev := <-watcher.Events`: the oldest event leaves the channel
Receive(q) == [ev |-> Head(q), rest |-> Tail(q)]

\* mutant: the goroutine is started before the result of Add is looked at
NewStartsLoopFirst(outcome) ==
    /\ ~newResult.called
    /\ newResult' = [called |-> TRUE, handle |-> (outcome = "ok"),
                     err |-> outcome]
    /\ fsOpen' = (outcome # "errNewWatcher")
    /\ loop' = IF outcome # "errNewWatcher" THEN "select" ELSE "none"
    /\ UNCHANGED <<cfg, closeCount, done, events, errors, calls, logged,
                   reported, errTotal, stopCalls, moved, renames, movedTo>>
    /\ UNCHANGED stVars

\* New (lines 82-100): fsnotify.NewWatcher fails, or fsWatcher.Add fails, or
\* the goroutine is started and the handle returned
New(outcome) ==
    /\ ~newResult.called
    /\ newResult' = [called |-> TRUE, handle |-> (outcome = "ok"),
                     err |-> outcome]
    /\ fsOpen' = (outcome # "errNewWatcher")
    /\ loop' = IF outcome = "ok" THEN "select" ELSE "none"
    /\ UNCHANGED <<cfg, closeCount, done, events, errors, calls, logged,
                   reported, errTotal, stopCalls, moved, renames, movedTo>>
    /\ UNCHANGED stVars

\* mutant: Stop closes a channel of its own, which panics the second time
StopClosesChannel ==
    /\ newResult.handle
    /\ Alive
    /\ stopCalls' = IF stopCalls < 2 THEN stopCalls + 1 ELSE stopCalls
    /\ done' = TRUE
    /\ loop' = IF done THEN "crashed" ELSE loop
    /\ UNCHANGED <<cfg, newResult, fsOpen, closeCount, events, errors, calls,
                   logged, reported, errTotal, moved, renames, movedTo>>
    /\ UNCHANGED stVars

\* Stop (lines 46-48): w.cancel()
Stop ==
    /\ newResult.handle
    /\ Alive
    /\ stopCalls' = IF stopCalls < 2 THEN stopCalls + 1 ELSE stopCalls
    /\ done' = TRUE
    /\ UNCHANGED <<cfg, newResult, fsOpen, closeCount, events, errors, loop,
                   calls, logged, reported, errTotal, moved, renames, movedTo>>
    /\ UNCHANGED stVars

\* the scope given to New is cancelled by its owner (line 94: the watcher's
\* context is a child of it)
CancelScope ==
    /\ Alive
    /\ ~done
    /\ done' = TRUE
    /\ UNCHANGED <<cfg, newResult, fsOpen, closeCount, events, errors, loop,
                   calls, logged, reported, errTotal, stopCalls, moved,
                   renames, movedTo>>
    /\ UNCHANGED stVars

\* case <-w.ctx.Done() (lines 58-60)
LoopDone ==
    /\ loop = "select"
    /\ done
    /\ fsOpen' = FALSE
    /\ closeCount' = closeCount + 1
    /\ loop' = "exited"
    /\ UNCHANGED <<cfg, newResult, done, events, errors, calls, logged,
                   reported, errTotal, stopCalls, moved, renames, movedTo>>
    /\ UNCHANGED stVars

\* case err := <-watcher.Errors (lines 62-63)
LoopError ==
    /\ loop = "select"
    /\ errors > 0
    /\ errors' = errors - 1
    /\ logged' = logged + 1
    /\ UNCHANGED <<cfg, newResult, fsOpen, closeCount, done, events, loop,
                   calls, reported, errTotal, stopCalls, moved, renames,
                   movedTo>>
    /\ UNCHANGED stVars

\* case ev := <-watcher.Events (lines 65-77), up to the call of the handler:
\* an ignored event is done with at once, the call of a nil handler panics
LoopEvent ==
    /\ loop = "select"
    /\ events # <<>>
    /\ LET ev == Receive(events).ev
           h == Classify(ev.Op)
       IN /\ events' = Receive(events).rest
          /\ IF h = "ignore"
                THEN UNCHANGED <<loop, calls>>
                ELSE IF ~HandlerSet(h)
                        THEN /\ loop' = "crashed"
                             /\ UNCHANGED calls
                        ELSE /\ loop' = IF h = "onCreate" THEN "inCreate"
                                                          ELSE "inRemove"
                             /\ calls' = Append(calls,
                                   [h |-> h, path |-> ev.Name, idx |-> ev.idx,
                                    res |-> "running"])
    /\ UNCHANGED <<cfg, newResult, fsOpen, closeCount, done, errors, logged,
                   reported, errTotal, stopCalls, moved, renames, movedTo>>
    /\ UNCHANGED stVars

\* mutant: the loop returns when the handler has failed
AfterHandlerReturnOnError(failed) ==
    /\ loop' = IF failed THEN "exited" ELSE "select"
    /\ calls' = [calls EXCEPT ![Len(calls)].res =
                     IF failed THEN "err" ELSE "ok"]
    /\ logged' = IF failed THEN logged + 1 ELSE logged

\* what the loop does when the handler has returned (lines 68-70, 72-74):
\* it logs the error, if any, and goes back to the select
AfterHandler(failed) ==
    /\ loop' = "select"
    /\ calls' = [calls EXCEPT ![Len(calls)].res =
                     IF failed THEN "err" ELSE "ok"]
    /\ logged' = IF failed THEN logged + 1 ELSE logged

\* the running handler returns, with an error or without
HandlerReturn(failed) ==
    /\ loop \in {"inCreate", "inRemove"}
    /\ AfterHandler(failed)
    /\ UNCHANGED <<cfg, newResult, fsOpen, closeCount, done, events, errors,
                   reported, errTotal, stopCalls, moved, renames, movedTo>>
    /\ UNCHANGED stVars

(***************************************************************************)
(* The raw event source (fsnotify), as the loop sees it.                   *)
(***************************************************************************)

\* the source is subscribed to the directory and the process lives
Subscribed == newResult.handle /\ fsOpen /\ Alive

\* number of changes and errors the source has had to report so far
FsOps ==
    Len(reported) - (Cardinality(renames) - (IF movedTo = None THEN 0 ELSE 1))
       + errTotal

Report(op, name) ==
    /\ events' = Append(events,
                    [Op |-> op, Name |-> name, idx |-> Len(reported) + 1])
    /\ reported' = Append(reported, [Op |-> op, Name |-> name])
    /\ moved' = IF op = Rename THEN moved \cup {name}
                ELSE IF "CREATE" \in op \/ "WRITE" \in op THEN moved \ {name}
                ELSE moved

\* the source reports an event of the directory
RawEvent(op, name) ==
    /\ Subscribed
    /\ movedTo = None
    /\ FsOps < MaxEvents
    /\ Report(op, name)
    /\ UNCHANGED <<cfg, newResult, fsOpen, closeCount, done, errors, loop,
                   calls, logged, errTotal, stopCalls, renames, movedTo>>
    /\ UNCHANGED stVars

\* a file is renamed inside the directory: the source reports a Rename event
\* for the old name (Config.OnRemove's comment, lines 33-35) ...
FsRename(from, to) ==
    /\ Subscribed
    /\ movedTo = None
    /\ from # to
    /\ FsOps < MaxEvents
    /\ Report(Rename, from)
    /\ renames' = renames \cup
                     {[from |-> from, to |-> to, idx |-> Len(reported) + 1]}
    /\ movedTo' = to
    /\ UNCHANGED <<cfg, newResult, fsOpen, closeCount, done, errors, loop,
                   calls, logged, errTotal, stopCalls>>
    /\ UNCHANGED stVars

\* ... and then a Create event for the new name
FsMovedTo ==
    /\ Subscribed
    /\ movedTo # None
    /\ Report(Create, movedTo)
    /\ movedTo' = None
    /\ UNCHANGED <<cfg, newResult, fsOpen, closeCount, done, errors, loop,
                   calls, logged, errTotal, stopCalls, renames>>
    /\ UNCHANGED stVars

\* the source reports an error
RawError ==
    /\ Subscribed
    /\ FsOps < MaxEvents
    /\ errTotal' = errTotal + 1
    /\ errors' = errors + 1
    /\ UNCHANGED <<cfg, newResult, fsOpen, closeCount, done, events, loop,
                   calls, logged, reported, stopCalls, moved, renames, movedTo>>
    /\ UNCHANGED stVars

(***************************************************************************)
(* store.go: the Store on a filewatcher.                                   *)
(***************************************************************************)

\* contents of the watched file: two well-formed documents and a malformed one
Docs == {"doc1", "doc2"}
Contents == Docs \cup {"bad"}

\* NewSecrets: the Secrets value decoded from a document, or an error
NewSecrets(content) ==
    IF content = "doc1" THEN [err |-> FALSE, val |-> "secrets1"]
    ELSE IF content = "doc2" THEN [err |-> FALSE, val |-> "secrets2"]
    ELSE [err |-> TRUE, val |-> None]

\* the middlewares of the model: one that calls its next handler and one
\* that does not
Middlewares == {"mPass", "mStop"}
CallsNext(m) == m = "mPass"

\* the lists of middlewares a call may be given
MwLists == UNION {[1..k -> Middlewares] : k \in 0..MaxChain}

\* mutant: the middleware is put under the chain instead of around it
WrapInside(ch, m) == <<m>> \o ch

\* one round of the loop of secretHandler (line 113): m wraps the chain
Wrap(ch, m) == Append(ch, m)

\* secretHandler (lines 111-115) run to its end
RECURSIVE SecretHandler(_, _)
SecretHandler(ch, ms) ==
    IF ms = <<>> THEN ch ELSE SecretHandler(Wrap(ch, Head(ms)), Tail(ms))

\* the middlewares entered, in order, when the chain is invoked: the one
\* wrapped last is entered first, and the one it wraps is entered only if it
\* calls its next handler
RECURSIVE Entered(_)
Entered(ch) ==
    IF ch = <<>> THEN <<>>
    ELSE IF CallsNext(ch[Len(ch)])
            THEN <<ch[Len(ch)]>> \o Entered(SubSeq(ch, 1, Len(ch) - 1))
            ELSE <<ch[Len(ch)]>>

\* mutant: the parser does not notify when the value has not changed
ParserSkipsSame(content) ==
    LET r == NewSecrets(content)
    IN [err |-> r.err, call |-> ~r.err /\ r.val # snapshot, val |-> r.val]

\* mutant: the parser invokes the chain before it looks at the error
ParserCallsFirst(content) ==
    LET r == NewSecrets(content)
    IN [err |-> r.err, call |-> TRUE, val |-> r.val]

\* store.parser (lines 99-108): the error or the value it returns, and
\* whether it has invoked s.secretHandlerFunc with that value
Parser(content) ==
    LET r == NewSecrets(content)
    IN [err |-> r.err, call |-> ~r.err, val |-> r.val]

\* getSecrets (lines 117-119): s.watcher.Get(), the value the filewatcher holds
getSecrets == snapshot

\* an invocation of s.secretHandlerFunc, as recorded: who made it, the
\* value given, the chain the field held, and what getSecrets would have
\* returned to a middleware at that moment
Invocation(by, val) ==
    [by |-> by, val |-> val, chain |-> chain, snap |-> snapshot,
     wset |-> watcherSet]

\* s.secretHandlerFunc(val) is called
Invoke(by, val) ==
    /\ invCount' = invCount + 1
    /\ lastInv' = Invocation(by, val)

\* NewStore, lines 78-81: the store is made and the middlewares wrapped
NewStoreBegin(ms) ==
    /\ stNew = "none"
    /\ newMws' = ms
    /\ registered' = ms
    /\ chain' = SecretHandler(<<>>, ms)
    /\ stNew' = "watching"
    /\ UNCHANGED <<file, fileWrites, stResult, watcherSet, snapshot, invCount,
                   lastInv, fw, fwEvents, fwStopped, fwVal, fwLogged, addPc,
                   addLeft, adds, closes>>
    /\ UNCHANGED cfVars
    /\ UNCHANGED dwVars

\* filewatcher.New, called at line 83, reads the file and gives it to the
\* parser; NewStore returns the error if there is one (lines 91-93)
FwNewParse ==
    /\ stNew = "watching"
    /\ file # "absent"
    /\ LET r == Parser(file)
       IN /\ IF r.call THEN Invoke("first", r.val)
                    ELSE UNCHANGED <<invCount, lastInv>>
          /\ IF r.err
                THEN /\ stNew' = "done"
                     /\ stResult' = [called |-> TRUE, store |-> FALSE,
                                     err |-> "parse"]
                     /\ UNCHANGED fwVal
                ELSE /\ stNew' = "inChain"
                     /\ fwVal' = r.val
                     /\ UNCHANGED stResult
    /\ UNCHANGED <<file, fileWrites, watcherSet, snapshot, chain, fw, fwEvents,
                   fwStopped, fwLogged, newMws, addPc, addLeft, adds, closes>>
    /\ UNCHANGED <<registered, cfVars>>
    /\ UNCHANGED dwVars

\* filewatcher.New gives up waiting for a file that is not there when the
\* context of NewStore expires
FwNewTimeout ==
    /\ stNew = "watching"
    /\ file = "absent"
    /\ stNew' = "done"
    /\ stResult' = [called |-> TRUE, store |-> FALSE, err |-> "context"]
    /\ UNCHANGED <<file, fileWrites, watcherSet, snapshot, chain, invCount,
                   lastInv, fw, fwEvents, fwStopped, fwVal, fwLogged, newMws,
                   addPc, addLeft, adds, closes>>
    /\ UNCHANGED <<registered, cfVars>>
    /\ UNCHANGED dwVars

\* the chain has returned to the parser and the parser to filewatcher.New,
\* which stores the value, starts its goroutine and returns
FwNewReturn ==
    /\ stNew = "inChain"
    /\ snapshot' = fwVal
    /\ fwVal' = None
    /\ fw' = "idle"
    /\ stNew' = "returning"
    /\ UNCHANGED <<file, fileWrites, stResult, watcherSet, chain, invCount,
                   lastInv, fwEvents, fwStopped, fwLogged, newMws, addPc,
                   addLeft, adds, closes>>
    /\ UNCHANGED <<registered, cfVars>>
    /\ UNCHANGED dwVars

\* mutant: the Store is returned without the watcher assigned to it
NewStoreReturnNoWatcher ==
    /\ stNew = "returning"
    /\ stResult' = [called |-> TRUE, store |-> TRUE, err |-> None]
    /\ stNew' = "done"
    /\ UNCHANGED <<file, fileWrites, watcherSet, snapshot, chain, invCount,
                   lastInv, fw, fwEvents, fwStopped, fwVal, fwLogged, newMws,
                   addPc, addLeft, adds, closes>>
    /\ UNCHANGED <<registered, cfVars>>
    /\ UNCHANGED dwVars

\* NewStore, lines 95-96
NewStoreReturn ==
    /\ stNew = "returning"
    /\ watcherSet' = TRUE
    /\ stResult' = [called |-> TRUE, store |-> TRUE, err |-> None]
    /\ stNew' = "done"
    /\ UNCHANGED <<file, fileWrites, snapshot, chain, invCount, lastInv, fw,
                   fwEvents, fwStopped, fwVal, fwLogged, newMws, addPc,
                   addLeft, adds, closes>>
    /\ UNCHANGED <<registered, cfVars>>
    /\ UNCHANGED dwVars

\* the file is written while NewStore waits for it or the filewatcher
\* watches it; a running filewatcher gets a change event
FileWrite(content) ==
    /\ \/ stNew = "watching" /\ file = "absent"
       \/ fw \in {"idle", "inChain"}
    /\ fileWrites < MaxWrites
    /\ fileWrites' = fileWrites + 1
    /\ file' = content
    /\ fwEvents' = IF fw \in {"idle", "inChain"} THEN fwEvents + 1
                                                 ELSE fwEvents
    /\ UNCHANGED <<stNew, stResult, watcherSet, snapshot, chain, invCount,
                   lastInv, fw, fwStopped, fwVal, fwLogged, newMws, addPc,
                   addLeft, adds, closes>>
    /\ UNCHANGED <<registered, cfVars>>
    /\ UNCHANGED dwVars

\* the filewatcher's goroutine receives a change event, reads the file and
\* gives it to the parser; it logs the error if there is one
FwReload ==
    /\ fw = "idle"
    /\ ~fwStopped
    /\ fwEvents > 0
    /\ fwEvents' = fwEvents - 1
    /\ LET r == Parser(file)
       IN /\ IF r.call THEN Invoke("reload", r.val)
                    ELSE UNCHANGED <<invCount, lastInv>>
          /\ IF r.err
                THEN /\ fwLogged' = fwLogged + 1
                     /\ UNCHANGED <<fw, fwVal>>
                ELSE /\ fw' = "inChain"
                     /\ fwVal' = r.val
                     /\ UNCHANGED fwLogged
    /\ UNCHANGED <<file, fileWrites, stNew, stResult, watcherSet, snapshot,
                   chain, fwStopped, newMws, addPc, addLeft, adds, closes>>
    /\ UNCHANGED <<registered, cfVars>>
    /\ UNCHANGED dwVars

\* the chain has returned to the parser and the parser to the filewatcher,
\* which stores the value
FwStore ==
    /\ fw = "inChain"
    /\ snapshot' = fwVal
    /\ fwVal' = None
    /\ fw' = "idle"
    /\ UNCHANGED <<file, fileWrites, stNew, stResult, watcherSet, chain,
                   invCount, lastInv, fwEvents, fwStopped, fwLogged, newMws,
                   addPc, addLeft, adds, closes>>
    /\ UNCHANGED <<registered, cfVars>>
    /\ UNCHANGED dwVars

\* the filewatcher's goroutine ends once the filewatcher is stopped
FwExit ==
    /\ fw = "idle"
    /\ fwStopped
    /\ fw' = "exited"
    /\ UNCHANGED <<file, fileWrites, stNew, stResult, watcherSet, snapshot,
                   chain, invCount, lastInv, fwEvents, fwStopped, fwVal,
                   fwLogged, newMws, addPc, addLeft, adds, closes>>
    /\ UNCHANGED <<registered, cfVars>>
    /\ UNCHANGED dwVars

\* store.Close (lines 129-132): s.watcher.Stop()
Close ==
    /\ stResult.store
    /\ fwStopped' = TRUE
    /\ closes' = IF closes < 2 THEN closes + 1 ELSE closes
    /\ UNCHANGED <<file, fileWrites, stNew, stResult, watcherSet, snapshot,
                   chain, invCount, lastInv, fw, fwEvents, fwVal, fwLogged,
                   newMws, addPc, addLeft, adds>>
    /\ UNCHANGED <<registered, cfVars>>
    /\ UNCHANGED dwVars

\* store.AddMiddlewares is called (line 140)
AddBegin(ms) ==
    /\ stResult.store
    /\ addPc = "idle"
    /\ adds < MaxAdds
    /\ Len(chain) + Len(ms) <= MaxChain
    /\ adds' = adds + 1
    /\ registered' = registered \o ms
    /\ addLeft' = ms
    /\ addPc' = "wrapping"
    /\ UNCHANGED <<file, fileWrites, stNew, stResult, watcherSet, snapshot,
                   chain, invCount, lastInv, fw, fwEvents, fwStopped, fwVal,
                   fwLogged, newMws, closes>>
    /\ UNCHANGED cfVars
    /\ UNCHANGED dwVars

\* one round of the loop of secretHandler, called at line 141
AddWrap ==
    /\ addPc = "wrapping"
    /\ addLeft # <<>>
    /\ chain' = Wrap(chain, Head(addLeft))
    /\ addLeft' = Tail(addLeft)
    /\ UNCHANGED <<file, fileWrites, stNew, stResult, watcherSet, snapshot,
                   invCount, lastInv, fw, fwEvents, fwStopped, fwVal, fwLogged,
                   newMws, addPc, adds, closes>>
    /\ UNCHANGED <<registered, cfVars>>
    /\ UNCHANGED dwVars

\* mutant: AddMiddlewares wraps the chain and does not invoke it
AddInvokeNoReplay ==
    /\ addPc = "wrapping"
    /\ addLeft = <<>>
    /\ addPc' = "inChain"
    /\ UNCHANGED <<file, fileWrites, stNew, stResult, watcherSet, snapshot,
                   chain, invCount, lastInv, fw, fwEvents, fwStopped, fwVal,
                   fwLogged, newMws, addLeft, adds, closes>>
    /\ UNCHANGED <<registered, cfVars>>
    /\ UNCHANGED dwVars

\* line 142: the chain is invoked with what getSecrets returns
AddInvoke ==
    /\ addPc = "wrapping"
    /\ addLeft = <<>>
    /\ Invoke("add", getSecrets)
    /\ addPc' = "inChain"
    /\ UNCHANGED <<file, fileWrites, stNew, stResult, watcherSet, snapshot,
                   chain, fw, fwEvents, fwStopped, fwVal, fwLogged, newMws,
                   addLeft, adds, closes>>
    /\ UNCHANGED <<registered, cfVars>>
    /\ UNCHANGED dwVars

\* the chain returns and AddMiddlewares with it
AddReturn ==
    /\ addPc = "inChain"
    /\ addPc' = "idle"
    /\ UNCHANGED <<file, fileWrites, stNew, stResult, watcherSet, snapshot,
                   chain, invCount, lastInv, fw, fwEvents, fwStopped, fwVal,
                   fwLogged, newMws, addLeft, adds, closes>>
    /\ UNCHANGED <<registered, cfVars>>
    /\ UNCHANGED dwVars

(***************************************************************************)
(* config.go                                                               *)
(***************************************************************************)

\* the provider strings a configuration holds in the model: the two known
\* ones, the empty string of an option left unset, and an unknown one
Providers == {"vault", "vault_csi", "", "consul"}

\* Config.getProvider (lines 33-42): the Provider and whether an error is
\* returned with it
getProvider(p) ==
    IF p = "vault" THEN [provider |-> "VaultProvider", err |-> FALSE]
    ELSE IF p = "vault_csi"
            THEN [provider |-> "VaultCsiProvider", err |-> FALSE]
            ELSE [provider |-> "VaultProvider", err |-> TRUE]

\* a call of getProvider on the configuration
ResolveProvider ==
    /\ ~resolved.called
    /\ resolved' = [called |-> TRUE,
                    provider |-> getProvider(config.Provider).provider,
                    err |-> getProvider(config.Provider).err]
    /\ UNCHANGED <<file, fileWrites, stNew, stResult, watcherSet, snapshot,
                   chain, invCount, lastInv, fw, fwEvents, fwStopped, fwVal,
                   fwLogged, newMws, addPc, addLeft, adds, closes, registered,
                   config>>
    /\ UNCHANGED dwVars

\* InitFromConfig (lines 45-54): NewStore with the path of the
\* configuration and no middleware; what NewStore returns is returned
InitFromConfig ==
    /\ stNew = "none"
    /\ NewStoreBegin(<<>>)

(***************************************************************************)
(* Vocabulary of the properties.                                           *)
(***************************************************************************)

\* positions (in the reported order) of the events still in the raw source
QueueIdx == {events[k].idx : k \in DOMAIN events}

\* positions of the events the loop has received
ReceivedIdx == {i \in DOMAIN reported : i \notin QueueIdx}

\* positions of the events for which a handler call was begun
CallIdx == {calls[k].idx : k \in DOMAIN calls}

\* the events the loop receives in a step
ReceivedNow ==
    {events[k] : k \in DOMAIN events} \ {events'[k] : k \in DOMAIN events'}

\* a handler call, as it is when it begins
CallOf(h, e) == [h |-> h, path |-> e.Name, idx |-> e.idx, res |-> "running"]

\* the loop has taken a step
LoopStepped ==
    \/ loop' # loop
    \/ Len(events') < Len(events)
    \/ errors' < errors

ContentFlags == {"CREATE", "WRITE", "REMOVE", "RENAME"}

(***************************************************************************)
(* C1. Every event the loop receives is dispatched by its operation: for   *)
(* Create or Write, onCreate is called exactly once with the event's path  *)
(* and onRemove is not; for Remove or Rename, onRemove is called exactly   *)
(* once with the event's path and onCreate is not; for an operation with   *)
(* none of these four flags (a permission change) no handler is called.    *)
(* A handler is called only for an event received in the same step.        *)
(* (Where the handler of the case is nil there is no handler to call; the  *)
(* other handler is still not called.)                                     *)
(***************************************************************************)
C1_DispatchOf(e) ==
    /\ e.Op \in {Create, Write} =>
          calls' = IF cfg.OnCreate THEN Append(calls, CallOf("onCreate", e))
                                   ELSE calls
    /\ e.Op \in {Remove, Rename} =>
          calls' = IF cfg.OnRemove THEN Append(calls, CallOf("onRemove", e))
                                   ELSE calls
    /\ e.Op \cap ContentFlags = {} => calls' = calls

C1_DispatchByOp ==
    [][ /\ \A e \in ReceivedNow : C1_DispatchOf(e)
        /\ Len(calls') > Len(calls) => ReceivedNow # {} ]_vars

\* a permission change was received and ignored, and a Write event of the
\* other file was received and onCreate called with its path
C1_Witness ==
    /\ \E i \in ReceivedIdx :
          reported[i] = [Op |-> Chmod, Name |-> "f1"] /\ i \notin CallIdx
    /\ \E k \in DOMAIN calls :
          /\ calls[k].h = "onCreate"
          /\ calls[k].path = "f2"
          /\ reported[calls[k].idx] = [Op |-> Write, Name |-> "f2"]

(***************************************************************************)
(* C2. The events are processed in the order the raw source reports them,  *)
(* one at a time: the events received are a prefix of the reported ones,   *)
(* the handler calls follow the reported order with no event dispatched    *)
(* twice and none skipped, and a call begins only when every earlier call  *)
(* has returned, so that at most one handler runs at any time.             *)
(***************************************************************************)
C2_InOrder ==
    /\ \A i \in ReceivedIdx : \A j \in 1..i : j \in ReceivedIdx
    /\ \A k \in DOMAIN calls : calls[k].idx \in ReceivedIdx
    /\ \A j, k \in DOMAIN calls : j < k => calls[j].idx < calls[k].idx
    /\ \A j, k \in DOMAIN calls : j < k => calls[j].res # "running"
    /\ \A i \in ReceivedIdx :
          (/\ Cardinality(reported[i].Op) = 1
           /\ reported[i].Op \subseteq ContentFlags
           /\ HandlerSet(IF reported[i].Op \in {Create, Write}
                            THEN "onCreate" ELSE "onRemove"))
          => i \in CallIdx
    /\ (loop \in {"inCreate", "inRemove"}) =
          (calls # <<>> /\ calls[Len(calls)].res = "running")

\* two handler calls were made, for two events reported one after the other
C2_Witness ==
    /\ Len(calls) = 2
    /\ calls[1].res # "running"
    /\ calls[1].h # calls[2].h
    /\ calls[2].idx = calls[1].idx + 1


C4_NoCallAfterStop ==
    [][ done => Len(calls') = Len(calls) ]_vars

(***************************************************************************)
(* C5. After Stop() or cancellation, the first iteration of the loop that  *)
(* starts afterwards observes the cancellation: it receives no event and   *)
(* no error, closes the raw event subscription (once) and ends the task.   *)
(***************************************************************************)
C5_ExitAtNextIteration ==
    [][ (done /\ loop = "select" /\ LoopStepped) =>
           /\ loop' = "exited"
           /\ closeCount' = closeCount + 1
           /\ ~fsOpen'
           /\ events' = events
           /\ errors' = errors ]_vars

(***************************************************************************)
(* C6. Stop() is idempotent: a call of Stop() sets the cancellation and    *)
(* changes nothing else, a call made when the cancellation is already set  *)
(* changes nothing at all, no call fails, and the subscription is closed   *)
(* at most once whatever the interleaving with the loop.                   *)
(***************************************************************************)
C6_StopIdempotent ==
    /\ [][ stopCalls' # stopCalls =>
              /\ done'
              /\ UNCHANGED <<cfg, newResult, fsOpen, closeCount, events, errors, loop,
                   calls, logged, reported, errTotal, moved, renames, movedTo>> ]_vars
    /\ [](closeCount <= 1)
    /\ [](loop = "exited" => closeCount = 1 /\ ~fsOpen)

\* Stop() was called twice, the second time after the loop had ended
C6_Witness ==
    /\ stopCalls = 2
    /\ loop = "exited"
    /\ closeCount = 1

(***************************************************************************)
(* C7. An error does not stop the watcher: when a handler returns, with an *)
(* error or without, the loop goes back to its select with the events, the *)
(* subscription and the calls made as they were, having logged one message *)
(* exactly when the handler failed; an error of the raw source is logged   *)
(* once and changes nothing else; no event is given to a handler twice;    *)
(* and the task has ended only if the cancellation was set.                *)
(***************************************************************************)
C7_ErrorsNotFatal ==
    /\ [][ /\ (loop \in {"inCreate", "inRemove"} /\ loop' # loop) =>
                /\ loop' = "select"
                /\ Len(calls') = Len(calls)
                /\ logged' = IF calls'[Len(calls)].res = "err"
                                THEN logged + 1 ELSE logged
                /\ UNCHANGED <<events, errors, fsOpen, closeCount, done>>
           /\ errors' < errors =>
                /\ logged' = logged + 1
                /\ UNCHANGED <<loop, events, calls, fsOpen, closeCount, done>> ]_vars
    /\ [](\A j, k \in DOMAIN calls : j # k => calls[j].idx # calls[k].idx)
    /\ [](loop = "exited" => done)

\* a handler failed, the error was logged, and the next event was given to
\* its handler
C7_Witness ==
    /\ Len(calls) = 2
    /\ calls[1].res = "err"
    /\ calls[2].res = "ok"
    /\ calls[2].idx = calls[1].idx + 1
    /\ logged = 1
    /\ loop = "select"
    /\ ~done

(***************************************************************************)
(* C8. If fsnotify.NewWatcher or fsWatcher.Add fails, New returns an error *)
(* and no handle, the loop is not started, and no handler is ever called.  *)
(***************************************************************************)
C8_FailedNewStartsNothing ==
    (newResult.called /\ newResult.err # "ok") =>
        /\ ~newResult.handle
        /\ loop = "none"
        /\ calls = <<>>
        /\ events = <<>>

\* New has failed because the path could not be subscribed to
C8_Witness ==
    /\ newResult.called
    /\ newResult.err = "errAdd"
    /\ fsOpen
    /\ done

\* the parser is given the file in this step: by filewatcher.New or by the
\* filewatcher's goroutine
ParsedNow ==
    \/ stNew = "watching" /\ stNew' # "watching" /\ file # "absent"
    \/ fwEvents' < fwEvents

(***************************************************************************)
(* C9. Every successful parse of the watched file invokes the handler      *)
(* chain exactly once, with the value just parsed and with the chain the   *)
(* Store holds at that moment: the first parse, made during NewStore, with *)
(* the middlewares given to NewStore, and a re-read whether or not its     *)
(* value differs from the snapshot.  The parser invokes the chain at no    *)
(* other time.                                                             *)
(***************************************************************************)
C9_ParseInvokesChain ==
    [][ /\ (ParsedNow /\ file \in Docs) =>
              /\ invCount' = invCount + 1
              /\ lastInv'.val = NewSecrets(file).val
              /\ lastInv'.chain = chain
              /\ lastInv'.by \in {"first", "reload"}
        /\ (ParsedNow /\ file \in Docs /\ stNew = "watching") =>
              /\ lastInv'.chain = newMws
              /\ lastInv'.by = "first"
        /\ (invCount' # invCount /\ lastInv'.by # "add") =>
              (ParsedNow /\ file \in Docs)
        /\ invCount' \in {invCount, invCount + 1} ]_vars

\* the first parse invoked the middleware given to NewStore, and a re-read
\* whose value is the snapshot's invoked it again
C9_Witness ==
    /\ invCount = 2
    /\ newMws # <<>>
    /\ lastInv.by = "reload"
    /\ lastInv.chain = newMws
    /\ lastInv.val = lastInv.snap
    /\ fw = "idle"
    /\ snapshot = lastInv.val

(***************************************************************************)
(* C10. A re-parse that fails after a snapshot has been published leaves   *)
(* the snapshot as it was and invokes no middleware: the chain is not      *)
(* invoked for it.                                                         *)
(***************************************************************************)
C10_FailedReparseKeepsSnapshot ==
    /\ [][ (fwEvents' < fwEvents /\ file \notin Docs) =>
              /\ snapshot # None
              /\ snapshot' = snapshot
              /\ invCount' = invCount
              /\ lastInv' = lastInv
              /\ fw' = "idle" ]_vars
    /\ [](fw # "none" => snapshot \in {NewSecrets(d).val : d \in Docs})

\* a malformed file was re-read: the error was logged, the snapshot is the
\* one of the first parse and the chain has been invoked that one time
C10_Witness ==
    /\ file = "bad"
    /\ fwLogged = 1
    /\ fwEvents = 0
    /\ fileWrites = 1
    /\ fw = "idle"
    /\ snapshot = "secrets1"
    /\ invCount = 1
    /\ lastInv.by = "first"

(***************************************************************************)
(* C11. Once the handler chain has run for a reload with value v, what an  *)
(* accessor of the Store reads is v or a newer value: while the latest     *)
(* invocation of the chain is the one of a reload (no newer value has been *)
(* parsed since), getSecrets returns the value that invocation was given.  *)
(***************************************************************************)
C11_GetNotOlderThanChain ==
    (invCount > 0 /\ lastInv.by = "reload") => getSecrets = lastInv.val

(***************************************************************************)
(* C12. Every AddMiddlewares call on a constructed Store invokes, before   *)
(* it returns, the chain it has built exactly once with the snapshot of    *)
(* that moment: the call wraps the middlewares it was given, in order,     *)
(* around the chain registered before (nothing else changes the chain      *)
(* meanwhile), then invokes the chain of all the registered middlewares    *)
(* with what getSecrets returns, and returns only after that invocation.   *)
(* No file event is needed for it.                                         *)
(***************************************************************************)
C12_AddReplaysChain ==
    [][ /\ (addPc = "idle" /\ addPc' # "idle") =>
              /\ stResult.store
              /\ addPc' = "wrapping"
              /\ SecretHandler(chain', addLeft') = registered'
              /\ chain' = chain /\ invCount' = invCount
        /\ (addPc = "wrapping" /\ addPc' = "wrapping") =>
              /\ SecretHandler(chain', addLeft') = SecretHandler(chain, addLeft)
              /\ (invCount' # invCount => lastInv'.by # "add")
        /\ (addPc = "wrapping" /\ addPc' # "wrapping") =>
              /\ addPc' = "inChain"
              /\ addLeft = <<>>
              /\ chain' = chain /\ chain = registered
              /\ invCount' = invCount + 1
              /\ lastInv'.by = "add"
              /\ lastInv'.chain = registered
              /\ lastInv'.val = snapshot /\ snapshot # None
        /\ (addPc = "inChain") =>
              /\ addPc' \in {"inChain", "idle"}
              /\ (invCount' # invCount => lastInv'.by # "add")
        /\ (addPc = "idle" /\ invCount' # invCount) => lastInv'.by # "add" ]_vars

\* with no write made to the file since the Store was constructed, a call
\* of AddMiddlewares has returned after it invoked the chain of the two
\* registered middlewares with the snapshot
C12_Witness ==
    /\ fileWrites = 0
    /\ adds = 1
    /\ addPc = "idle"
    /\ invCount = 2
    /\ lastInv.by = "add"
    /\ Len(newMws) = 1
    /\ lastInv.chain = registered /\ Len(lastInv.chain) = 2
    /\ lastInv.val = snapshot

\* the middlewares registered and wrapped so far, in the order registered
Wrapped == SubSeq(registered, 1, Len(registered) - Len(addLeft))

\* what the claimed order of entry is for middlewares registered in the
\* order reg: the last one first, and an earlier one only if every later
\* one calls its next handler
EntryOrder(reg) ==
    LET n == Len(reg)
        ran == {i \in 1..n : \A j \in (i + 1)..n : CallsNext(reg[j])}
    IN [k \in 1..Cardinality(ran) |-> reg[n + 1 - k]]

(***************************************************************************)
(* C13. With the middlewares m_1..m_n registered in that order, through    *)
(* NewStore and AddMiddlewares, the chain is m_n(...m_1(noop)): at every   *)
(* moment, and in every invocation made, the chain enters the middleware   *)
(* registered last first, and an earlier one exactly when every later one  *)
(* calls its next handler.                                                 *)
(***************************************************************************)
C13_LastRegisteredOutermost ==
    /\ [](Entered(chain) = EntryOrder(Wrapped))
    /\ [][ invCount' # invCount =>
              Entered(lastInv'.chain) = EntryOrder(Wrapped) ]_vars

\* a middleware that does not call its next handler was given to NewStore
\* and one that does to AddMiddlewares: the invocation AddMiddlewares made
\* entered the second and then the first
C13_Witness ==
    /\ registered = <<"mStop", "mPass">>
    /\ newMws = <<"mStop">>
    /\ addPc = "idle"
    /\ lastInv.by = "add"
    /\ Entered(lastInv.chain) = <<"mPass", "mStop">>

(***************************************************************************)
(* C14. Close() can be called any number of times and only stops the       *)
(* filewatcher; once it has been called the snapshot never changes again   *)
(* and no reload invokes the handler chain, and the accessors go on        *)
(* returning the snapshot published before the first Close.                *)
(***************************************************************************)
C14_CloseFreezesSnapshot ==
    /\ [][ closes' # closes =>
              /\ fwStopped'
              /\ UNCHANGED <<snapshot, chain, invCount, lastInv, fw, fwVal,
                             stResult, watcherSet>> ]_vars
    /\ [][ closes > 0 =>
              /\ getSecrets' = getSecrets
              /\ (invCount' # invCount => lastInv'.by = "add") ]_vars
    /\ [](closes > 0 => getSecrets \in {NewSecrets(d).val : d \in Docs})

(***************************************************************************)
(* C15. A Store made from a configuration whose provider string is neither *)
(* "vault" nor "vault_csi" (nor left unset) is not made: InitFromConfig    *)
(* returns the error of the unknown provider and no Store, and no watcher  *)
(* is started.                                                             *)
(***************************************************************************)
C15_UnknownProviderFails ==
    (config.Provider \notin {"vault", "vault_csi", ""} /\ stNew # "none") =>
        /\ fw = "none"
        /\ stResult.called => (~stResult.store /\ stResult.err = "provider")

(***************************************************************************)
(* C16. A provider option left unset, the empty string, resolves like      *)
(* "vault": getProvider returns the vault provider and no error.           *)
(***************************************************************************)
C16_EmptyProviderIsVault ==
    (config.Provider = "" /\ resolved.called) =>
        /\ ~resolved.err
        /\ resolved.provider = getProvider("vault").provider

(***************************************************************************)
(* C17. With one caller of AddMiddlewares and the filewatcher's goroutine  *)
(* reloading, the handler chain is not shared between the two: the chain   *)
(* field is not written by AddMiddlewares while the goroutine is in the    *)
(* parser invoking it, the parser does not read the field while a call of  *)
(* AddMiddlewares is writing it, and the chain is never running on the     *)
(* caller's thread and on the goroutine at the same time.                  *)
(***************************************************************************)
C17_ChainNotShared ==
    /\ [][ (stResult.store /\ chain' # chain) => fw # "inChain" ]_vars
    /\ [][ (invCount' # invCount /\ lastInv'.by = "reload") =>
              ~(addPc = "wrapping" /\ addLeft # <<>>) ]_vars
    /\ [](~(addPc = "inChain" /\ fw = "inChain"))

\* no reload and no call of AddMiddlewares is in progress on the Store
Quiescent ==
    /\ stResult.store
    /\ fw \in {"idle", "exited"}
    /\ addPc = "idle"

\* the i-th middleware of the chain is entered when the chain is invoked
Reached(ch, i) == \A j \in (i + 1)..Len(ch) : CallsNext(ch[j])

(***************************************************************************)
(* C18. In every quiescent state, each registered middleware that the      *)
(* chain enters was most recently invoked with the current snapshot: the   *)
(* latest invocation of the chain was made on the chain as it is now, so   *)
(* it entered each of them, and the value it was given is the value        *)
(* getSecrets returns.                                                     *)
(***************************************************************************)
C18_MiddlewaresSeeLatest ==
    Quiescent =>
        \A i \in DOMAIN chain :
            Reached(chain, i) =>
                (lastInv.chain = chain /\ lastInv.val = getSecrets)

\* the chain is running: in the first parse, in a reload, or in a call of
\* AddMiddlewares
ChainRunning == stNew = "inChain" \/ fw = "inChain" \/ addPc = "inChain"

\* an accessor of the Store returns a value: the watcher is assigned and
\* holds a parsed value
AccessorsUsable ==
    /\ watcherSet
    /\ getSecrets \in {NewSecrets(d).val : d \in Docs}

(***************************************************************************)
(* C19 as stated: whenever a middleware of the chain is running, the first *)
(* parse made by NewStore included, the watcher of the Store is set and a  *)
(* snapshot is published, so that an accessor returns a value.             *)
(***************************************************************************)
C19_AccessorsUsableInChain == ChainRunning => AccessorsUsable

(***************************************************************************)
(* C19, amended. Once NewStore has returned the Store, its watcher is set  *)
(* and a snapshot is published, so that an accessor of the Store returns a *)
(* value, also when called from a middleware running for a reload or for   *)
(* AddMiddlewares.  While the chain runs for the first parse, the watcher  *)
(* is not set and no snapshot is published yet; NewStore has not returned  *)
(* the Store to anyone, and it returns it only with the watcher set.       *)
(***************************************************************************)
C19_AccessorsUsableOnceReturned ==
    /\ stResult.store => AccessorsUsable
    /\ stNew = "inChain" =>
          (~watcherSet /\ snapshot = None /\ ~stResult.called)
    /\ ~watcherSet => ~stResult.store

\* the first parse has invoked the chain with the watcher not set and no
\* snapshot published, and a middleware is now running for a reload of the
\* returned Store, the snapshot being the value of the first parse
C19_Witness ==
    /\ stResult.store
    /\ fw = "inChain"
    /\ chain # <<>>
    /\ invCount = 2
    /\ lastInv.by = "reload"
    /\ lastInv.wset
    /\ lastInv.snap = "secrets1"
    /\ lastInv.val = "secrets2"
    /\ getSecrets = "secrets1"

(***************************************************************************)
(* C20. An event whose operation carries more than one flag is dispatched  *)
(* by its content flag: with Create or Write among its flags onCreate is   *)
(* called once with its path, with Remove or Rename among them onRemove    *)
(* is (where the handler is set).                                          *)
(***************************************************************************)
C20_DispatchByFlag ==
    [][ \A e \in ReceivedNow :
           Cardinality(e.Op) > 1 =>
              /\ (e.Op \cap {"CREATE", "WRITE"} # {} /\ cfg.OnCreate) =>
                    calls' = Append(calls, CallOf("onCreate", e))
              /\ (e.Op \cap {"REMOVE", "RENAME"} # {} /\ cfg.OnRemove) =>
                    calls' = Append(calls, CallOf("onRemove", e)) ]_vars

(***************************************************************************)
(* C21. A watcher configured without the handler of a case keeps running   *)
(* when an event of that case arrives: the event has no effect, the loop   *)
(* goes on at its select, and the task never crashes, so that later events *)
(* are still received and dispatched.                                      *)
(***************************************************************************)
C21_NilHandlerIgnored ==
    /\ [][ \A e \in ReceivedNow :
              (Classify(e.Op) # "ignore" /\ ~HandlerSet(Classify(e.Op))) =>
                 /\ loop' = "select"
                 /\ calls' = calls
                 /\ logged' = logged ]_vars
    /\ [](Alive)

(***************************************************************************)
(* C22. The raw event source a call of New creates is always released: in  *)
(* every terminal state, New having failed or the task having ended, no    *)
(* fsnotify watcher created by New is open; when subscribing to the path   *)
(* fails, the watcher created just before is closed when New returns.      *)
(***************************************************************************)
C22_SubscriptionReleased ==
    /\ (newResult.called /\ ~newResult.handle) => ~fsOpen
    /\ loop = "exited" => ~fsOpen

DWInit ==
    /\ cfg \in [OnCreate : BOOLEAN, OnRemove : BOOLEAN]
    /\ newResult = [called |-> FALSE, handle |-> FALSE, err |-> None]
    /\ fsOpen = FALSE
    /\ closeCount = 0
    /\ done = FALSE
    /\ events = <<>>
    /\ errors = 0
    /\ loop = "none"
    /\ calls = <<>>
    /\ logged = 0
    /\ reported = <<>>
    /\ errTotal = 0
    /\ stopCalls = 0
    /\ moved = {}
    /\ renames = {}
    /\ movedTo = None

DWNext ==
    \/ \E outcome \in {"ok", "errNewWatcher", "errAdd"} : New(outcome)
    \/ Stop
    \/ CancelScope
    \/ LoopDone
    \/ LoopError
    \/ LoopEvent
    \/ \E failed \in BOOLEAN : HandlerReturn(failed)
    \/ \E in \in RawInputs : RawEvent(in.Op, in.Name)
    \/ \E from \in Names, to \in Names : FsRename(from, to)
    \/ FsMovedTo
    \/ RawError

StInit ==
    /\ file \in Contents \cup {"absent"}
    /\ fileWrites = 0
    /\ stNew = "none"
    /\ stResult = [called |-> FALSE, store |-> FALSE, err |-> None]
    /\ watcherSet = FALSE
    /\ snapshot = None
    /\ chain = <<>>
    /\ invCount = 0
    /\ lastInv = [by |-> None, val |-> None, chain |-> <<>>, snap |-> None,
                  wset |-> FALSE]
    /\ fw = "none"
    /\ fwEvents = 0
    /\ fwStopped = FALSE
    /\ fwVal = None
    /\ fwLogged = 0
    /\ newMws = <<>>
    /\ addPc = "idle"
    /\ addLeft = <<>>
    /\ adds = 0
    /\ closes = 0
    /\ registered = <<>>
    /\ resolved = [called |-> FALSE, provider |-> None, err |-> FALSE]

\* the directory watcher alone, the Store not constructed
Init ==
    /\ DWInit
    /\ StInit
    /\ file = "absent"
    /\ config = [Provider |-> "vault"]

Next == DWNext

Spec == Init /\ [][Next]_vars

\* the Store alone, the directory watcher not constructed
StoreInit ==
    /\ DWInit
    /\ cfg = [OnCreate |-> TRUE, OnRemove |-> TRUE]
    /\ StInit
    /\ config = [Provider |-> "vault"]

StoreNext ==
    \/ \E ms \in MwLists : NewStoreBegin(ms)
    \/ FwNewParse
    \/ FwNewTimeout
    \/ FwNewReturn
    \/ NewStoreReturn
    \/ \E content \in Contents : FileWrite(content)
    \/ FwReload
    \/ FwStore
    \/ FwExit
    \/ Close
    \/ \E ms \in MwLists : AddBegin(ms)
    \/ AddWrap
    \/ AddInvoke
    \/ AddReturn

StoreSpec == StoreInit /\ [][StoreNext]_vars

\* a Store made from a configuration
ConfigInit ==
    /\ DWInit
    /\ cfg = [OnCreate |-> TRUE, OnRemove |-> TRUE]
    /\ StInit
    /\ config \in [Provider : Providers]

ConfigNext ==
    \/ InitFromConfig
    \/ ResolveProvider
    \/ FwNewParse
    \/ FwNewTimeout
    \/ FwNewReturn
    \/ NewStoreReturn
    \/ \E content \in Contents : FileWrite(content)
    \/ FwReload
    \/ FwStore
    \/ FwExit
    \/ Close

ConfigSpec == ConfigInit /\ [][ConfigNext]_vars

====
